---------------------------- MODULE Spec2Model ----------------------------
(***************************************************************************)
(* rterm: the fixed-capacity circular glyph buffer (src/src/buffer.rs),    *)
(* its default input handler, the line-wrap iterator and the tail window   *)
(* the renderer (src/src/lib.rs) lays out.                                 *)
(*                                                                         *)
(* Cells are addressed by their 0-based index, as in the source; a glyph   *)
(* reference (&Glyph into self.glyphs) is modelled by the index of the     *)
(* cell it points to, so reference identity is index equality.             *)
(***************************************************************************)
EXTENDS Integers, Sequences, FiniteSets, TLC

\* ------------------------------------------------------------------ bounds
MaxCap  == 4    \* largest size handed to Buffer::new
MaxSeek == 2    \* seek_cursor offsets range over -MaxSeek..MaxSeek
MaxText == 2    \* longest text handed to push_text / on_text
MaxCol  == 2    \* widest viewport, in columns
MaxRow  == 2    \* tallest viewport, in rows
MaxPush == 6    \* longest run of push_glyph calls counted from construction

\* ------------------------------------------------------------------ glyphs
NUL == "NUL"    \* '\0'
NL  == "NL"     \* '\n'
SP  == "SP"     \* ' '

Chars == {NUL, NL, SP}

White == <<1, 1, 1, 1>>
Clear == <<0, 0, 0, 0>>
Red   == <<1, 0, 0, 1>>

Glyph_new(char) ==
    [char |-> char, foreground |-> White, background |-> Clear]

\* The glyphs a caller of push_glyph supplies: the default-attributed
\* glyphs of Chars and one glyph with caller-chosen colours.
Glyph ==
    {Glyph_new(c) : c \in Chars}
        \cup {[char |-> "a", foreground |-> Red, background |-> White]}

\* The texts handed to push_text / on_text.
TextChars == {SP, NL}
Text == UNION {[1..n -> TextChars] : n \in 0..MaxText}

Key == {"Return", "Left", "Right", "Backspace", "A"}

\* --------------------------------------------------------- 32-bit integers
\* A u32 is kept as two 16-bit limbs, value = hi * 65536 + lo, so that the
\* full 32-bit width of `as u32` is represented.
Limb == 65536
HalfLimb == 32768
I32Min == -2147483647 - 1
I32Max == 2147483647

\* i32 `+` (two's complement wrap-around, as in a release build; a debug
\* build panics on overflow instead).  With cursors below the modelled
\* capacities and offsets in -MaxSeek..MaxSeek the sum never overflows.
i32_add(a, b) ==
    IF a >= 0 /\ b > I32Max - a THEN (a - I32Max - 1) + (b + I32Min)
    ELSE IF a < 0 /\ b < I32Min - a THEN (a - I32Min) + (b + I32Max) + 1
    ELSE a + b

\* `x as u32` for an i32 x: the value modulo 2^32.
as_u32(x) ==
    IF x >= 0
    THEN [hi |-> x \div Limb, lo |-> x % Limb]
    ELSE LET y == x - I32Min     \* x + 2^31, in 0..2^31-1
         IN [hi |-> HalfLimb + (y \div Limb), lo |-> y % Limb]

\* `x as i32` for a u32 x that is a cursor value (below 2^31 here).
as_i32(x) == IF x <= I32Max THEN x ELSE (x - I32Max - 1) + I32Min

\* u32 `%` with a divisor m in 1..65535.
u32_rem(u, m) == (((u.hi % m) * (Limb % m)) + (u.lo % m)) % m

\* ------------------------------------------------------------------- state
\* buffer: the Buffer that run() builds and hands to the handler
\*         (src/src/lib.rs, `let mut buffer`), with its panicked flag.
\* ev:     the call last made on the buffer and its argument, as the event
\*         loop of run() or another caller of the public API makes it.
VARIABLES buffer, ev

vars == <<buffer, ev>>

Min(a, b) == IF a < b THEN a ELSE b

\* Buffer { cursor, glyphs }; glyphs[i + 1] is the source's glyphs[i].
\* `panicked` records that an operation on the buffer panicked (index out
\* of bounds, remainder by zero), after which the thread has unwound.
len(self) == Len(self.glyphs)

Cell(self, i) == self.glyphs[i + 1]

Buffer_new(size) ==
    [cursor |-> 0,
     glyphs |-> [i \in 1..size |-> Glyph_new(NUL)],
     panicked |-> FALSE]

Panic(self) == [self EXCEPT !.panicked = TRUE]

\* glyphs[i] = glyph, with the slice bounds check.
store(self, i, glyph) ==
    IF i >= len(self) THEN Panic(self)
    ELSE [self EXCEPT !.glyphs[i + 1] = glyph]

\* `self.glyphs.len() as u32`: the identity for the capacities modelled
\* (all below 2^16).
len_u32(self) == len(self)

\* seek_cursor blanking the cell it arrives at
seek_cursor_clears_cell(self, n) ==
    IF self.panicked THEN self
    ELSE IF len_u32(self) = 0 THEN Panic(self)
    ELSE LET c == u32_rem(as_u32(i32_add(as_i32(self.cursor), n)),
                          len_u32(self))
         IN [self EXCEPT !.cursor = c, !.glyphs[c + 1] = Glyph_new(NUL)]

\* seek_cursor taking the remainder by len + 1 instead of len
seek_cursor_rem_off_by_one(self, n) ==
    IF self.panicked THEN self
    ELSE [self EXCEPT !.cursor =
              u32_rem(as_u32(i32_add(as_i32(self.cursor), n)),
                      len_u32(self) + 1)]

\* self.cursor = (self.cursor as i32 + n) as u32 % self.glyphs.len() as u32
seek_cursor(self, n) ==
    IF self.panicked THEN self
    ELSE IF len_u32(self) = 0 THEN Panic(self)
    ELSE [self EXCEPT !.cursor =
              u32_rem(as_u32(i32_add(as_i32(self.cursor), n)), len_u32(self))]

\* push_glyph stopping at the last cell instead of wrapping to cell 0
push_glyph_no_wrap(self, glyph) ==
    IF self.panicked THEN self
    ELSE LET stored == store(self, self.cursor, glyph)
         IN IF stored.panicked THEN stored
            ELSE [stored EXCEPT !.cursor = Min(self.cursor + 1, len(self) - 1)]

\* push_glyph moving the cursor before it stores the glyph
push_glyph_after_seek(self, glyph) ==
    IF self.panicked THEN self
    ELSE LET moved == seek_cursor(self, 1)
         IN IF moved.panicked THEN moved
            ELSE store(moved, moved.cursor, glyph)

push_glyph(self, glyph) ==
    IF self.panicked THEN self
    ELSE LET stored == store(self, self.cursor, glyph)
         IN IF stored.panicked THEN stored ELSE seek_cursor(stored, 1)

\* push_text pushing the characters last to first
RECURSIVE push_text_reversed(_, _)
push_text_reversed(self, text) ==
    IF text = <<>> THEN self
    ELSE push_text_reversed(
             push_glyph(self, Glyph_new(text[Len(text)])),
             SubSeq(text, 1, Len(text) - 1))

\* for char in text.chars() { self.push_glyph(Glyph::new(char)) }
RECURSIVE push_text(_, _)
push_text(self, text) ==
    IF text = <<>> THEN self
    ELSE push_text(push_glyph(self, Glyph_new(Head(text))), Tail(text))

\* ------------------------------------------------------- DefaultHandler
on_text(self, text) == push_text(self, text)

\* on_key pushing a glyph for the keys it should ignore
on_key_echoes_other(self, key) ==
    CASE key = "Return"    -> push_text(self, <<NL>>)
      [] key = "Left"      -> seek_cursor(self, -1)
      [] key = "Right"     -> seek_cursor(self, 1)
      [] key = "Backspace" ->
             LET moved == seek_cursor(self, -1)
             IN IF moved.panicked THEN moved
                ELSE store(moved, moved.cursor, Glyph_new(SP))
      [] OTHER             -> push_text(self, <<SP>>)

on_key(self, key) ==
    CASE key = "Return"    -> push_text(self, <<NL>>)
      [] key = "Left"      -> seek_cursor(self, -1)
      [] key = "Right"     -> seek_cursor(self, 1)
      [] key = "Backspace" ->
             LET moved == seek_cursor(self, -1)
             IN IF moved.panicked THEN moved
                ELSE store(moved, moved.cursor, Glyph_new(SP))
      [] OTHER             -> self

\* ------------------------------------------------------------ LineIter
\* LineIter over the glyph references `refs` (cell indices of `self`):
\* the sequence of (col, row, glyph) triples that next() yields.
RECURSIVE LineIter_from(_, _, _, _, _)
LineIter_from(self, refs, max_col, col, row) ==
    IF refs = <<>> THEN <<>>
    ELSE LET glyph == Head(refs)
             nl    == Cell(self, glyph).char = NL
             row1  == IF nl THEN row + 1 ELSE row
             col1  == IF nl THEN 0 ELSE col + 1
             wrap  == col1 >= max_col
         IN <<[col |-> col, row |-> row, glyph |-> glyph]>>
                \o LineIter_from(self, Tail(refs), max_col,
                                 IF wrap THEN 0 ELSE col1,
                                 IF wrap THEN row1 + 1 ELSE row1)

\* LineIter wrapping only once the column has passed max_col (`>` for `>=`)
RECURSIVE LineIter_wraps_late(_, _, _, _, _)
LineIter_wraps_late(self, refs, max_col, col, row) ==
    IF refs = <<>> THEN <<>>
    ELSE LET glyph == Head(refs)
             nl    == Cell(self, glyph).char = NL
             row1  == IF nl THEN row + 1 ELSE row
             col1  == IF nl THEN 0 ELSE col + 1
             wrap  == col1 > max_col
         IN <<[col |-> col, row |-> row, glyph |-> glyph]>>
                \o LineIter_wraps_late(self, Tail(refs), max_col,
                                       IF wrap THEN 0 ELSE col1,
                                       IF wrap THEN row1 + 1 ELSE row1)

LineIter_late(self, refs, max_col) ==
    LineIter_wraps_late(self, refs, max_col, 0, 0)

LineIter(self, refs, max_col) == LineIter_from(self, refs, max_col, 0, 0)

\* ---------------------------------------------------------------- tail
Reverse(s) == [i \in 1..Len(s) |-> s[Len(s) + 1 - i]]

\* iter().take(offset): the references to cells 0 .. offset-1
prefix(self, offset) == [i \in 1..Min(offset, len(self)) |-> i - 1]

\* postfix stopping at '\n' only, not at '\0'
RECURSIVE postfix_keeps_nul(_, _)
postfix_keeps_nul(self, i) ==
    IF i >= len(self) THEN <<>>
    ELSE IF Cell(self, i).char = NL THEN <<>>
    ELSE <<i>> \o postfix_keeps_nul(self, i + 1)

\* postfix taking the first '\n' or '\0' as well before it stops
RECURSIVE postfix_through_terminator(_, _)
postfix_through_terminator(self, i) ==
    IF i >= len(self) THEN <<>>
    ELSE IF Cell(self, i).char = NL \/ Cell(self, i).char = NUL THEN <<i>>
    ELSE <<i>> \o postfix_through_terminator(self, i + 1)

\* iter().skip(offset).take_while(char != '\n' && char != '\0')
RECURSIVE postfix(_, _)
postfix(self, i) ==
    IF i >= len(self) THEN <<>>
    ELSE IF Cell(self, i).char = NL \/ Cell(self, i).char = NUL THEN <<>>
    ELSE <<i>> \o postfix(self, i + 1)

\* the chained iterator handed to LineIter, before .rev()
logical(self) == prefix(self, self.cursor + 1) \o postfix(self, self.cursor + 1)

effective_row(self, item) ==
    IF Cell(self, item.glyph).char = NL THEN item.row + 1 ELSE item.row

\* take_while(effective_row < max_row).map(glyph)
RECURSIVE kept(_, _, _)
kept(self, items, max_row) ==
    IF items = <<>> THEN <<>>
    ELSE IF effective_row(self, Head(items)) < max_row
         THEN <<Head(items).glyph>> \o kept(self, Tail(items), max_row)
         ELSE <<>>

\* tail without the final .rev(): newest first
tail_newest_first(self, max_col, max_row) ==
    kept(self, LineIter(self, Reverse(logical(self)), max_col), max_row)

tail(self, max_col, max_row) ==
    Reverse(kept(self, LineIter(self, Reverse(logical(self)), max_col), max_row))

\* is_at_cursor comparing the glyphs' values instead of their addresses
is_at_cursor_by_value(self, glyph) ==
    Cell(self, glyph) = Cell(self, self.cursor)

\* item_ref == glyph, a comparison of addresses: the referenced cell is the
\* cell glyphs[cursor]
is_at_cursor(self, glyph) == glyph = self.cursor

\* ------------------------------------------------------------- actions
\* ev is the call last made on the buffer, with its argument.
Init ==
    \E size \in 0..MaxCap :
        /\ buffer = Buffer_new(size)
        /\ ev = [op |-> "new", arg |-> size]

PushGlyph ==
    \E glyph \in Glyph :
        /\ ~buffer.panicked
        /\ buffer' = push_glyph(buffer, glyph)
        /\ ev' = [op |-> "push_glyph", arg |-> glyph]

PushText ==
    \E text \in Text :
        /\ ~buffer.panicked
        /\ buffer' = push_text(buffer, text)
        /\ ev' = [op |-> "push_text", arg |-> text]

SeekCursor ==
    \E n \in -MaxSeek..MaxSeek :
        /\ ~buffer.panicked
        /\ buffer' = seek_cursor(buffer, n)
        /\ ev' = [op |-> "seek_cursor", arg |-> n]

OnKey ==
    \E key \in Key :
        /\ ~buffer.panicked
        /\ buffer' = on_key(buffer, key)
        /\ ev' = [op |-> "on_key", arg |-> key]

OnText ==
    \E text \in Text :
        /\ ~buffer.panicked
        /\ buffer' = on_text(buffer, text)
        /\ ev' = [op |-> "on_text", arg |-> text]

\* A panic unwinds the thread that owns the buffer: nothing runs after it,
\* which is the guard ~buffer.panicked of every action.
Next ==
    \/ PushGlyph
    \/ PushText
    \/ SeekCursor
    \/ OnKey
    \/ OnText

Spec == Init /\ [][Next]_vars

\* The same calls without a record of which one was made, for the claims
\* that speak of the buffer's state alone (tail, LineIter, is_at_cursor):
\* Calls(self) is the set of buffers one call can leave behind.
Calls(self) ==
    {push_glyph(self, glyph) : glyph \in Glyph}
        \cup {push_text(self, text) : text \in Text}
        \cup {seek_cursor(self, n) : n \in -MaxSeek..MaxSeek}
        \cup {on_key(self, key) : key \in Key}
        \cup {on_text(self, text) : text \in Text}

AnyCall ==
    /\ ~buffer.panicked
    /\ buffer' \in Calls(buffer)
    /\ UNCHANGED ev

NextBuffer == AnyCall

SpecBuffer == Init /\ [][NextBuffer]_vars

\* ---------------------------------------------------------- viewports
Viewport == (0..MaxCol) \X (0..MaxRow)

\* the rows the renderer's forward layout gives the glyph references `refs`
Rows(self, refs, max_col) ==
    LET items == LineIter(self, refs, max_col)
    IN {items[i].row : i \in 1..Len(items)}

\* ------------------------------------------------------------------ C1
\* C1: in every reachable state of a buffer built with capacity >= 1 the
\* cursor is a valid cell index, 0 <= cursor < capacity, and no operation
\* has panicked on an index.
C1_CursorInBounds ==
    len(buffer) >= 1 =>
        /\ buffer.cursor \in 0..(len(buffer) - 1)
        /\ ~buffer.panicked

\* a seek by a negative offset that wrapped below index 0
C1_Witness ==
    /\ ev.op = "seek_cursor"
    /\ ev.arg < 0
    /\ len(buffer) >= 2
    /\ buffer.cursor - ev.arg >= len(buffer)

\* ------------------------------------------------------------------ C2
\* C2: seek_cursor(n) sets the cursor to (old_cursor + n) mod capacity, the
\* non-negative mathematical modulo, for every capacity >= 1 and every
\* signed n.
C2_SeekIsMathematicalModulo ==
    [][(ev'.op = "seek_cursor" /\ len(buffer) >= 1) =>
          buffer'.cursor = (buffer.cursor + ev'.arg) % len(buffer)]_vars

\* ------------------------------------------------------------------ C3
\* C3: seek_cursor(n) followed by seek_cursor(-n) restores the cursor the
\* buffer had before the first seek.
C3_SeekRoundTrip ==
    [][(ev'.op = "seek_cursor" /\ len(buffer) >= 1) =>
          seek_cursor(buffer', 0 - ev'.arg).cursor = buffer.cursor]_vars

\* ------------------------------------------------------------------ C4
\* C4: the Backspace key at cursor k writes a space glyph to cell
\* (k-1) mod C, moves the cursor there, and changes no other cell.
C4_BackspaceRetreats ==
    [][(ev'.op = "on_key" /\ ev'.arg = "Backspace" /\ len(buffer) >= 1) =>
          LET k1 == (buffer.cursor - 1) % len(buffer)
          IN /\ buffer'.cursor = k1
             /\ buffer'.glyphs =
                    [buffer.glyphs EXCEPT ![k1 + 1] = Glyph_new(SP)]]_vars

\* ------------------------------------------------------------------ C5
\* C5: for every viewport, the glyphs tail(max_col, max_row) returns, laid
\* out forward by LineIter at max_col, all get a row below max_row.
C5_TailFitsViewport ==
    \A vp \in Viewport :
        \A row \in Rows(buffer, tail(buffer, vp[1], vp[2]), vp[1]) :
            row < vp[2]

\* ------------------------------------------------------------------ C6
\* C6: tail(max_col, max_row) is empty whenever max_col = 0 or max_row = 0.
C6_DegenerateViewportEmpty ==
    \A vp \in Viewport :
        (vp[1] = 0 \/ vp[2] = 0) => tail(buffer, vp[1], vp[2]) = <<>>

\* ------------------------------------------------------------------ C7
\* C7: Buffer::new(0) is rejected, so no buffer with zero cells exists and
\* no later operation panics on an index or a remainder by zero.
C7_ZeroCapacityRejected ==
    /\ len(buffer) >= 1
    /\ ~buffer.panicked

\* ------------------------------------------------------------------ C8
\* C8: when the logical sequence, laid out forward at max_col >= 1, uses at
\* most max_row rows, tail(max_col, max_row) returns all of it.
C8_ShortSequenceReturnedWhole ==
    \A vp \in Viewport :
        (/\ vp[1] >= 1
         /\ \A row \in Rows(buffer, logical(buffer), vp[1]) : row < vp[2])
            => tail(buffer, vp[1], vp[2]) = logical(buffer)

\* ------------------------------------------------------------------ C9
\* the buffer as Buffer::new leaves it, with at least one cell
IsEmpty(self) ==
    /\ len(self) >= 1
    /\ self.cursor = 0
    /\ \A i \in 0..(len(self) - 1) : Cell(self, i) = Glyph_new(NUL)

\* C9 (as stated): on an empty buffer tail returns the empty sequence for
\* every viewport.
C9_EmptyBufferEmptyTail ==
    IsEmpty(buffer) =>
        \A vp \in Viewport : tail(buffer, vp[1], vp[2]) = <<>>

\* C9 (amended): on an empty buffer tail returns the empty sequence when
\* max_row = 0, and exactly the one '\0' cell under the cursor (cell 0) for
\* every viewport with max_col >= 1 and max_row >= 1.
C9_EmptyBufferTailIsCursorCell ==
    IsEmpty(buffer) =>
        \A vp \in Viewport :
            /\ vp[2] = 0 => tail(buffer, vp[1], vp[2]) = <<>>
            /\ (vp[1] >= 1 /\ vp[2] >= 1) =>
                   tail(buffer, vp[1], vp[2]) = <<buffer.cursor>>

\* a fresh buffer of several cells whose tail is the cursor cell alone
C9_Witness ==
    /\ ev.op = "new"
    /\ IsEmpty(buffer)
    /\ len(buffer) >= 2
    /\ tail(buffer, MaxCol, MaxRow) = <<0>>

\* ----------------------------------------------------------------- C10
\* C10: push_glyph(g) leaves g in the cell at the pre-push cursor, sets the
\* cursor to (old_cursor + 1) mod C and changes no other cell.
C10_PushOverwrites ==
    [][(ev'.op = "push_glyph" /\ len(buffer) >= 1) =>
          /\ buffer'.glyphs =
                 [buffer.glyphs EXCEPT ![buffer.cursor + 1] = ev'.arg]
          /\ buffer'.cursor = (buffer.cursor + 1) % len(buffer)]_vars

\* a push into the last cell, which wrapped the cursor to 0
C10_Witness ==
    /\ ev.op = "push_glyph"
    /\ len(buffer) >= 2
    /\ buffer.cursor = 0
    /\ Cell(buffer, len(buffer) - 1) = ev.arg
    /\ ev.arg.foreground = Red


\* ----------------------------------------------------------------- C11
\* A caller that, from construction on, only calls push_glyph; ev.n counts
\* the calls made so far.
Pushes == IF ev.op = "new" THEN 0 ELSE ev.n

PushGlyphCounted ==
    \E glyph \in Glyph :
        /\ ~buffer.panicked
        /\ Pushes < MaxPush
        /\ buffer' = push_glyph(buffer, glyph)
        /\ ev' = [op |-> "push_glyph", arg |-> glyph, n |-> Pushes + 1]

NextPushes == PushGlyphCounted

SpecPushes == Init /\ [][NextPushes]_vars

\* C11: from a fresh buffer of capacity C >= 1, after N push_glyph calls
\* and no seek the cursor is N mod C.
C11_CursorIsPushCountModCap ==
    len(buffer) >= 1 => buffer.cursor = Pushes % len(buffer)

\* more pushes than cells, ending away from cell 0
C11_Witness ==
    /\ len(buffer) = MaxCap
    /\ Pushes = MaxPush
    /\ buffer.cursor = MaxPush - MaxCap

\* ----------------------------------------------------------------- C12
IsSuffix(t, l) ==
    /\ Len(t) <= Len(l)
    /\ \A i \in 1..Len(t) : t[i] = l[Len(l) - Len(t) + i]

\* C12: for every viewport the glyph references tail returns are a
\* contiguous suffix of the logical sequence, in the same order.
C12_TailIsSuffixOfLogical ==
    \A vp \in Viewport :
        IsSuffix(tail(buffer, vp[1], vp[2]), logical(buffer))

\* a tail of several glyphs that is cut short of the logical sequence
C12_Witness ==
    \E vp \in Viewport :
        LET t == tail(buffer, vp[1], vp[2])
        IN /\ Len(t) >= 2
           /\ Len(t) < Len(logical(buffer))
           /\ buffer.cursor + 1 < Len(logical(buffer))

\* ----------------------------------------------------------------- C13
Terminator(self, i) == Cell(self, i).char = NL \/ Cell(self, i).char = NUL

\* C13: every cell tail returns from after the cursor lies strictly before
\* the first '\n' or '\0' after the cursor.
C13_StaleSegmentStopsAtTerminator ==
    \A vp \in Viewport :
        LET t == tail(buffer, vp[1], vp[2])
        IN \A i \in 1..Len(t) :
               t[i] > buffer.cursor =>
                   \A j \in (buffer.cursor + 1)..t[i] : ~Terminator(buffer, j)

\* tail returns a stale cell and a terminator and further text follow it
C13_Witness ==
    /\ len(buffer) >= 4
    /\ buffer.cursor = 0
    /\ ~Terminator(buffer, 1)
    /\ Cell(buffer, 2).char = NL
    /\ ~Terminator(buffer, 3)
    /\ tail(buffer, MaxCol, MaxRow) = <<0, 1>>

\* ----------------------------------------------------------------- C14
\* C14: seek_cursor(n), and so the ArrowLeft and ArrowRight keys, change
\* the cursor only: every cell keeps its character and its attributes.
C14_SeekKeepsCells ==
    [][(\/ ev'.op = "seek_cursor"
        \/ (ev'.op = "on_key" /\ ev'.arg \in {"Left", "Right"}))
          => buffer'.glyphs = buffer.glyphs]_vars

\* ArrowLeft on a buffer holding a glyph with caller-chosen colours
C14_Witness ==
    /\ ev.op = "on_key"
    /\ ev.arg = "Left"
    /\ len(buffer) >= 2
    /\ Cell(buffer, buffer.cursor).foreground = Red
    /\ \E i \in 0..(len(buffer) - 1) : Cell(buffer, i).char = SP

\* ----------------------------------------------------------------- C15
\* C15: with capacity >= 1, is_at_cursor holds of exactly one cell of the
\* buffer, the cell at index cursor, and of at most one glyph of any tail.
C15_CursorIdentity ==
    len(buffer) >= 1 =>
        /\ {i \in 0..(len(buffer) - 1) : is_at_cursor(buffer, i)}
               = {buffer.cursor}
        /\ \A vp \in Viewport :
               LET t == tail(buffer, vp[1], vp[2])
               IN Cardinality({i \in 1..Len(t) : is_at_cursor(buffer, t[i])})
                      <= 1

\* a tail holding the cursor cell and another cell with an equal glyph
C15_Witness ==
    \E vp \in Viewport :
        LET t == tail(buffer, vp[1], vp[2])
        IN \E i, j \in 1..Len(t) :
               /\ t[i] = buffer.cursor
               /\ t[j] # buffer.cursor
               /\ Cell(buffer, t[j]) = Cell(buffer, buffer.cursor)
               /\ Cell(buffer, t[j]).char = SP

\* ----------------------------------------------------------------- C16
\* C16: for every viewport with max_col >= 1 and max_row >= 1 the tail
\* contains the cell the cursor addresses.
C16_TailContainsCursor ==
    len(buffer) >= 1 =>
        \A vp \in Viewport :
            (vp[1] >= 1 /\ vp[2] >= 1) =>
                LET t == tail(buffer, vp[1], vp[2])
                IN \E i \in 1..Len(t) : is_at_cursor(buffer, t[i])

\* ----------------------------------------------------------------- C17
\* the references to all cells in array order: as every cell content is
\* reachable, these are all glyph sequences of up to MaxCap glyphs
AllCells(self) == [i \in 1..len(self) |-> i - 1]

WrapInputs(self) ==
    {AllCells(self), Reverse(AllCells(self)), logical(self),
     Reverse(logical(self))}

\* C17: at every width max_col >= 1 LineIter yields one triple per input
\* glyph, in input order, with 0 <= col < max_col and with rows that never
\* decrease and grow by at most 1 from one triple to the next.
C17_LineIterShape ==
    \A refs \in WrapInputs(buffer) :
        \A max_col \in 1..MaxCol :
            LET items == LineIter(buffer, refs, max_col)
            IN /\ Len(items) = Len(refs)
               /\ \A i \in 1..Len(items) :
                      /\ items[i].glyph = refs[i]
                      /\ items[i].col \in 0..(max_col - 1)
               /\ \A i \in 1..(Len(items) - 1) :
                      items[i + 1].row \in {items[i].row, items[i].row + 1}

\* a layout with a column wrap, then a newline at the last column
C17_Witness ==
    /\ len(buffer) >= 4
    /\ LET items == LineIter(buffer, AllCells(buffer), MaxCol)
       IN /\ Cell(buffer, 1).char # NL
          /\ items[2].col = MaxCol - 1
          /\ items[3].row = items[2].row + 1
          /\ Cell(buffer, 3).char = NL
          /\ items[4].col = MaxCol - 1

\* ----------------------------------------------------------------- C18
\* C18: push_text(s) and on_text(s) with |s| = L, on capacity C >= 1 and
\* cursor k: the cursor becomes (k + L) mod C, each of the last min(L, C)
\* characters s[i] is in cell (k + i) mod C with default attributes, and
\* when L < C the other C - L cells are unchanged.  (i counts from 0.)
C18_PushTextWritesInOrder ==
    [][(ev'.op \in {"push_text", "on_text"} /\ len(buffer) >= 1) =>
          LET s == ev'.arg
              L == Len(s)
              C == len(buffer)
              k == buffer.cursor
              written == {(k + i) % C : i \in 0..(L - 1)}
          IN /\ buffer'.cursor = (k + L) % C
             /\ \A i \in (L - Min(L, C))..(L - 1) :
                    Cell(buffer', (k + i) % C) = Glyph_new(s[i + 1])
             /\ L < C =>
                    \A j \in (0..(C - 1)) \ written :
                        Cell(buffer', j) = Cell(buffer, j)]_vars

\* on_text of two different characters that wrapped past the last cell
C18_Witness ==
    /\ ev.op = "on_text"
    /\ ev.arg = <<SP, NL>>
    /\ len(buffer) = 3
    /\ buffer.cursor = 1
    /\ Cell(buffer, 2).char = SP
    /\ Cell(buffer, 0).char = NL
    /\ Cell(buffer, 1).foreground = Red

\* ----------------------------------------------------------------- C19
\* C19: on_key with a key other than Return, Left, Right and Backspace
\* leaves the cursor and every cell unchanged, and Return is one push of a
\* default-attributed '\n' glyph at the cursor.
C19_OtherKeysNoOpEnterPushesNewline ==
    [][(ev'.op = "on_key" /\ len(buffer) >= 1) =>
          /\ ev'.arg \notin {"Return", "Left", "Right", "Backspace"} =>
                 buffer' = buffer
          /\ ev'.arg = "Return" =>
                 /\ buffer'.glyphs =
                        [buffer.glyphs EXCEPT
                             ![buffer.cursor + 1] = Glyph_new(NL)]
                 /\ buffer'.cursor = (buffer.cursor + 1) % len(buffer)
                 /\ ~buffer'.panicked]_vars

\* an ignored key pressed on a buffer that holds text and a moved cursor
C19_Witness ==
    /\ ev.op = "on_key"
    /\ ev.arg = "A"
    /\ len(buffer) >= 2
    /\ buffer.cursor # 0
    /\ \E i \in 0..(len(buffer) - 1) : Cell(buffer, i).char = SP
=============================================================================
